---------------------------- MODULE Spec2Model ----------------------------
(***************************************************************************)
(* A model of extract-manylinux: the Extractor of                          *)
(* src/extract_manylinux/extract.py (descriptor derivation, library        *)
(* lookup, dependency closure, rpath patching, the extract pipeline) and   *)
(* the command-line entry point of src/extractor_cli.py; and the           *)
(* Downloader of src/extract_manylinux/download.py (layers fetched by a    *)
(* generator, verified, queued and unpacked by tar subprocesses).          *)
(*                                                                         *)
(* Text is a sequence of one-character strings, so that parsing is         *)
(* computed and not assumed.  A path is a sequence of components, an       *)
(* absolute one starting with the component "/".                           *)
(***************************************************************************)
EXTENDS Integers, Sequences, FiniteSets, TLC

VARIABLES
    img,      \* the image tree and the host, as the program reads them
    dest,     \* the destination handed to extract
    pc,       \* position of the run
    err,      \* the exception that ended the run, "" when none
    ext,      \* the Extractor's derived fields, set by __post_init__
    dst,      \* the destination tree
    rpath,    \* search directive of every binary of the destination
    ldd,      \* the running ldd call: recursion stack and its dictionary
    libs,     \* extract's merged closure
    loc,      \* extract's locals: include folder, loop positions
    obs,      \* observations of the run (calls made, counts)
    plog,     \* the set_rpath calls made on a binary, oldest first
    found,    \* result of the last locate_library call
    run1,     \* the bundle of an earlier run against the same image
    manifest, \* the registry's answers: the manifest and its layers' blobs
    fetch,    \* position of the generator fetch_layers
    tarfiles, \* the deque of verified archives waiting for extraction
    extractor,\* download's variable extractor: 0 for None, else a process
    procs,    \* the tar subprocesses started, oldest first
    workdir,  \* the archives in the temporary directory
    dlog      \* what download did: archives unpacked, archives unlinked

dlvars == <<manifest, fetch, tarfiles, extractor, procs, workdir, dlog>>

exvars == <<img, dest, ext, dst, rpath, ldd, libs, loc, obs, plog, found, run1>>

vars == <<img, dest, pc, err, ext, dst, rpath, ldd, libs, loc, obs, plog,
          found, run1, dlvars>>

----------------------------------------------------------------------------
(* Text *)

Range(s) == {s[i] : i \in 1..Len(s)}

Digits == {"0", "1", "2", "3", "4", "5", "6", "7", "8", "9"}

DigitVal(c) ==
    CASE c = "0" -> 0 [] c = "1" -> 1 [] c = "2" -> 2 [] c = "3" -> 3
      [] c = "4" -> 4 [] c = "5" -> 5 [] c = "6" -> 6 [] c = "7" -> 7
      [] c = "8" -> 8 [] c = "9" -> 9

\* The characters of s as one string.
RECURSIVE Str(_)
Str(s) ==
    IF s = <<>> THEN ""
    ELSE IF Len(s) = 1 THEN s[1]
    ELSE Str(SubSeq(s, 1, Len(s) \div 2)) \o Str(SubSeq(s, Len(s) \div 2 + 1, Len(s)))

\* Position of the first c in s, 0 when there is none.
IndexOf(s, c) ==
    IF c \in Range(s)
    THEN CHOOSE i \in 1..Len(s) : s[i] = c /\ \A j \in 1..(i - 1) : s[j] # c
    ELSE 0

\* str.split(sep, maxsplit): the pieces of s between occurrences of sep, at
\* most maxsplit cuts, from the left.
RECURSIVE Split(_, _, _)
Split(s, sep, maxsplit) ==
    IF maxsplit = 0 \/ IndexOf(s, sep) = 0
    THEN <<s>>
    ELSE LET i == IndexOf(s, sep)
         IN  <<SubSeq(s, 1, i - 1)>>
                 \o Split(SubSeq(s, i + 1, Len(s)), sep, maxsplit - 1)

\* Texts are ASCII.  The characters str.strip() takes off the ends of a
\* text: blank, TAB, LF, CR, FF, VT (U+000B) and the separators U+001C to
\* U+001F.
Whitespace ==
    {" ", "\t", "\n", "\r", "\f", "", "", "", "", ""}

\* The characters int() skips around the number: blank, TAB, LF, CR, FF and
\* VT, the separators U+001C to U+001F not among them.
IntSpace == {" ", "\t", "\n", "\r", "\f", ""}

\* The characters of W taken off the left end, off the right end.
RECURSIVE LStripOf(_, _)
LStripOf(line, W) ==
    IF line # <<>> /\ line[1] \in W THEN LStripOf(Tail(line), W) ELSE line

RECURSIVE RStripOf(_, _)
RStripOf(line, W) ==
    IF line # <<>> /\ line[Len(line)] \in W
    THEN RStripOf(SubSeq(line, 1, Len(line) - 1), W)
    ELSE line

\* str.strip(): whitespace off both ends, of a text or of a line of tokens.
StripLeft(line) == LStripOf(line, Whitespace)

StripRight(line) == RStripOf(line, Whitespace)

Strip(line) == StripRight(StripLeft(line))

\* The text int() reads the number from: what it skips taken off.
IntStrip(s) == RStripOf(LStripOf(s, IntSpace), IntSpace)

\* The digits of int()'s argument: whitespace and the sign taken off.
Unsigned(s) ==
    LET t == IntStrip(s)
    IN  IF t # <<>> /\ t[1] \in {"+", "-"} THEN Tail(t) ELSE t

\* sys.int_info.default_max_str_digits: the most digits int() converts.
MaxStrDigits == 4300

\* Whether int(s) succeeds: whitespace around, an optional sign, then
\* digits, single underscores allowed between two digits, and no more than
\* MaxStrDigits digits, leading zeros counted, underscores not.
IsInt(s) ==
    LET body == Unsigned(s)
    IN  /\ body # <<>>
        /\ Range(body) \subseteq Digits \cup {"_"}
        /\ body[1] \in Digits
        /\ body[Len(body)] \in Digits
        /\ \A i \in 1..(Len(body) - 1) : ~(body[i] = "_" /\ body[i + 1] = "_")
        /\ Cardinality({i \in 1..Len(body) : body[i] \in Digits}) <= MaxStrDigits

RECURSIVE DigitsValue(_, _)
DigitsValue(s, acc) ==
    IF s = <<>> THEN acc
    ELSE IF s[1] = "_" THEN DigitsValue(Tail(s), acc)
    ELSE DigitsValue(Tail(s), 10 * acc + DigitVal(s[1]))

\* int(s), for s with IsInt(s).
ToInt(s) ==
    IF IntStrip(s)[1] = "-" THEN 0 - DigitsValue(Unsigned(s), 0)
    ELSE DigitsValue(Unsigned(s), 0)

----------------------------------------------------------------------------
(* Paths *)

\* A path is its root, "/" or pathlib's "//", and then its components.
IsAbs(p) == p # <<>> /\ p[1] \in {"/", "//"}

RECURSIVE Components(_)
Components(pieces) ==
    IF pieces = <<>> THEN <<>>
    ELSE IF pieces[1] \in {<<>>, <<".">>} THEN Components(Tail(pieces))
    ELSE <<Str(pieces[1])>> \o Components(Tail(pieces))

\* Path(text): the components between slashes, empty ones and "." dropped;
\* exactly two slashes in front are the root "//", one or three and more
\* the root "/".
ParsePath(s) ==
    (IF s = <<>> \/ s[1] # "/" THEN <<>>
     ELSE IF Len(s) >= 2 /\ s[2] = "/" /\ (Len(s) = 2 \/ s[3] # "/") THEN <<"//">>
     ELSE <<"/">>)
        \o Components(Split(s, "/", Len(s)))

\* Path.__truediv__: an absolute right operand replaces the left one.
PathJoin(p, q) == IF IsAbs(q) THEN q ELSE p \o q

\* Path(text).name: the text of the last component, "" for a bare root.
RECURSIVE LastPiece(_)
LastPiece(pieces) ==
    IF pieces = <<>> THEN <<>>
    ELSE IF pieces[Len(pieces)] \in {<<>>, <<".">>}
         THEN LastPiece(SubSeq(pieces, 1, Len(pieces) - 1))
    ELSE pieces[Len(pieces)]

PathName(s) == LastPiece(Split(s, "/", Len(s)))


\* os.path.abspath for a path without "." and "..": under cwd when relative.
AbsPath(p, cwd) == IF IsAbs(p) THEN p ELSE cwd \o p

RECURSIVE CommonLen(_, _)
CommonLen(p, q) ==
    IF p = <<>> \/ q = <<>> \/ p[1] # q[1] THEN 0
    ELSE 1 + CommonLen(Tail(p), Tail(q))

\* os.path.relpath(path, start): up from start to the common ancestor, then
\* down to path; "." when they are the same directory.
RelPath(path, start, cwd) ==
    LET p == AbsPath(path, cwd)
        s == AbsPath(start, cwd)
        i == CommonLen(p, s)
        rel == [j \in 1..(Len(s) - i) |-> ".."] \o SubSeq(p, i + 1, Len(p))
    IN  IF rel = <<>> THEN <<".">> ELSE rel

----------------------------------------------------------------------------
(* PythonVersion *)

Fail(e) == [ok |-> FALSE, err |-> e]

\* from_str without the try around int(patch): a patch that is no number
\* raises ValueError.
FromStrStrict(value) ==
    LET parts == Split(value, ".", 2)
    IN  IF Len(parts) # 3 THEN Fail("ValueError")
        ELSE IF \E i \in 1..3 : ~IsInt(parts[i]) THEN Fail("ValueError")
        ELSE [ok |-> TRUE,
              version |-> [major |-> ToInt(parts[1]), minor |-> ToInt(parts[2]),
                           patch |-> [int |-> ToInt(parts[3])]]]

\* PythonVersion.from_str: major.minor.patch, the patch an int when int()
\* takes it and the text itself otherwise.  Unpacking fewer than three
\* pieces, and int() of a major or minor that is no number, raise ValueError.
FromStr(value) ==
    LET parts == Split(value, ".", 2)
    IN  IF Len(parts) # 3 THEN Fail("ValueError")
        ELSE IF ~IsInt(parts[1]) \/ ~IsInt(parts[2]) THEN Fail("ValueError")
        ELSE [ok |-> TRUE,
              version |->
                [major |-> ToInt(parts[1]),
                 minor |-> ToInt(parts[2]),
                 patch |-> IF IsInt(parts[3])
                           THEN [int |-> ToInt(parts[3])]
                           ELSE [label |-> Str(parts[3])]]]

PatchText(patch) ==
    IF "int" \in DOMAIN patch THEN ToString(patch.int) ELSE patch.label

\* PythonVersion.long and PythonVersion.short
Long(v) ==
    ToString(v.major) \o "." \o ToString(v.minor) \o "." \o PatchText(v.patch)

Short(v) == ToString(v.major) \o "." \o ToString(v.minor)

----------------------------------------------------------------------------
(* Extractor.__post_init__ *)

Archs == {"aarch64", "i686", "x86_64"}

\* What os.readlink raises on in place of a target: the tag is not there
\* (FileNotFoundError), or is there and no link (OSError).
NoLink == <<"?">>

NotLink == <<"!">>

\* The architecture's library directory, under the image prefix.
ArchLibDir(arch) == IF arch \in {"aarch64", "x86_64"} THEN <<"lib64">> ELSE <<"lib">>

\* library_path: the architecture's directory, usr/local/lib, then the lib
\* directory of the first openssl-* the glob returned, when it returned any.
LibraryPath(prefix, arch, ssl) ==
    <<prefix \o ArchLibDir(arch), prefix \o <<"usr", "local", "lib">>>>
        \o (IF ssl = <<>> THEN <<>>
            ELSE <<prefix \o <<"opt", "_internal", ssl[1], "lib">>>>)

\* The excluded list: every stripped line that is neither empty nor a comment.
RECURSIVE ReadExcludeList(_)
ReadExcludeList(lines) ==
    IF lines = <<>> THEN <<>>
    ELSE LET line == Strip(lines[1])
         IN  (IF line # <<>> /\ line[1] # "#" THEN <<Str(line)>> ELSE <<>>)
                 \o ReadExcludeList(Tail(lines))

\* __post_init__ on image im, ssl being the openssl-* glob's result in the
\* order the listing gave: the derived fields, or the exception raised.
PostInit(im, ssl) ==
    IF im.link = NoLink THEN Fail("FileNotFoundError")
    ELSE IF im.link = NotLink THEN Fail("OSError")
    ELSE IF ~(im.link # <<>> /\ im.link[1] = "/") THEN Fail("NotImplementedError")
    ELSE
        LET pieces == Split(PathName(im.link), "-", 1)
        IN  IF Len(pieces) # 2 THEN Fail("ValueError")
            ELSE IF pieces[1] # <<"c", "p", "y", "t", "h", "o", "n">>
                 THEN Fail("NotImplementedError")
            ELSE IF ~FromStr(pieces[2]).ok THEN Fail("ValueError")
            ELSE IF ~im.patchelf THEN Fail("FileNotFoundError")
            ELSE [ok |-> TRUE,
                  python_prefix |-> PathJoin(im.prefix, ParsePath(Tail(im.link))),
                  impl |-> "CPYTHON",
                  version |-> FromStr(pieces[2]).version,
                  library_path |-> LibraryPath(im.prefix, im.arch, ssl),
                  excluded |-> ReadExcludeList(im.excludelist)]

NoExt == [ok |-> FALSE]


----------------------------------------------------------------------------
(* Extractor.locate_library, Extractor.set_rpath *)

NotFound == <<>>

\* locate_library without its return inside the loop: the last directory
\* that holds the name wins.
LocateLast(library_path, files, name) ==
    IF \E i \in 1..Len(library_path) : (library_path[i] \o <<name>>) \in files
    THEN library_path[CHOOSE i \in 1..Len(library_path) :
                        /\ (library_path[i] \o <<name>>) \in files
                        /\ \A j \in (i + 1)..Len(library_path) :
                              (library_path[j] \o <<name>>) \notin files]
             \o <<name>>
    ELSE <<>>

\* locate_library: the name under the first directory of library_path that
\* holds a file of that name; NotFound stands for FileNotFoundError(name).
RECURSIVE LocateLibrary(_, _, _)
LocateLibrary(library_path, files, name) ==
    IF library_path = <<>> THEN NotFound
    ELSE IF (library_path[1] \o <<name>>) \in files
         THEN library_path[1] \o <<name>>
    ELSE LocateLibrary(Tail(library_path), files, name)

\* set_rpath without the comparison of line 256: it always patches.
SetRpathAlways(current, directive) == [patched |-> TRUE, rpath |-> directive]

\* set_rpath on a binary whose directive is current: the directive it has
\* afterwards, and whether patchelf --set-rpath was run.
SetRpath(current, directive) ==
    [patched |-> current # directive,
     rpath   |-> IF current # directive THEN directive ELSE current]

----------------------------------------------------------------------------
(* Extractor.ldd *)

\* The NEEDED entries readelf -d prints for a file, in their order.
ReadElf(im, file) == im.needed[file]

\* Line 231 without its test of the dictionary: every entry that is not
\* excluded is followed, again and again.
FollowsAgain(dependencies, excluded, match) == match \notin Range(excluded)

\* Line 231 without its test of the excluded list.
FollowsExcluded(dependencies, excluded, match) == match \notin DOMAIN dependencies

\* Line 231: a NEEDED entry is followed when it is neither a key of the
\* dictionary nor excluded.
Follows(dependencies, excluded, match) ==
    match \notin DOMAIN dependencies /\ match \notin Range(excluded)

\* A fresh ldd call on target: recurse(target) is entered and reads it.
LddEnter(target) ==
    [target |-> target,
     stack  |-> <<[file |-> target, i |-> 1]>>,
     order  |-> <<>>,
     path   |-> <<>>]

NoLdd == [target |-> <<>>, stack |-> <<>>, order |-> <<>>, path |-> <<>>]

\* recurse catching the error of locate_library and going on to the next
\* entry.
LddNextSkipping(l, im, ex) ==
    LET n       == Len(l.stack)
        top     == l.stack[n]
        entries == ReadElf(im, top.file)
    IN  IF top.i > Len(entries)
        THEN [event |-> "return", name |-> "",
              ldd |-> [l EXCEPT !.stack = SubSeq(l.stack, 1, n - 1)]]
        ELSE
            LET match == entries[top.i]
                path  == LocateLibrary(ex.library_path, im.files, match)
                moved == [l.stack EXCEPT ![n].i = top.i + 1]
            IN  IF ~Follows(l.path, ex.excluded, match) \/ path = NotFound
                THEN [event |-> "skip", name |-> match,
                      ldd |-> [l EXCEPT !.stack = moved]]
                ELSE [event |-> "recurse", name |-> match,
                      ldd |-> [l EXCEPT
                                 !.stack = Append(moved, [file |-> path, i |-> 1]),
                                 !.order = Append(l.order, match),
                                 !.path  = (match :> path) @@ l.path]]

\* One step of recurse in the innermost frame: the loop is over and the
\* frame returns, or its next NEEDED entry is skipped, or is located,
\* inserted and then recursed into, or cannot be located.
LddNext(l, im, ex) ==
    LET n       == Len(l.stack)
        top     == l.stack[n]
        entries == ReadElf(im, top.file)
    IN  IF top.i > Len(entries)
        THEN [event |-> "return", name |-> "",
              ldd |-> [l EXCEPT !.stack = SubSeq(l.stack, 1, n - 1)]]
        ELSE
            LET match == entries[top.i]
                path  == LocateLibrary(ex.library_path, im.files, match)
                moved == [l.stack EXCEPT ![n].i = top.i + 1]
            IN  IF ~Follows(l.path, ex.excluded, match)
                THEN [event |-> "skip", name |-> match,
                      ldd |-> [l EXCEPT !.stack = moved]]
                ELSE IF path = NotFound
                THEN [event |-> "raise", name |-> match, ldd |-> l]
                ELSE [event |-> "recurse", name |-> match,
                      ldd |-> [l EXCEPT
                                 !.stack = Append(moved, [file |-> path, i |-> 1]),
                                 !.order = Append(l.order, match),
                                 !.path  = (match :> path) @@ l.path]]

\* Names of sequence s that are no key of function f, in the order of s.
RECURSIVE NewKeys(_, _)
NewKeys(s, f) ==
    IF s = <<>> THEN <<>>
    ELSE (IF s[1] \in DOMAIN f THEN <<>> ELSE <<s[1]>>) \o NewKeys(Tail(s), f)

\* Line 188 binding the module's dictionary in place of merging it.
DictReplace(d, l) == [order |-> l.order, path |-> l.path]

\* libs.update(l): the keys of l take l's values, new keys go to the end.
DictUpdate(d, l) ==
    [order |-> d.order \o NewKeys(l.order, d.path),
     path  |-> l.path @@ d.path]

NoLibs == [order |-> <<>>, path |-> <<>>]


----------------------------------------------------------------------------
(* The destination tree *)

\* Directive of a binary copied from the image and not queried yet: whatever
\* the image's file carries, read when set_rpath queries it.
AsCopied == <<"(as copied)">>

\* Directives a binary of the image may carry.
ImageRpaths ==
    {<<>>, <<"$ORIGIN">>, <<"$ORIGIN", "..", "lib">>,
     <<"/", "opt", "_internal", "cpython-3.11.4", "lib">>}

\* What patchelf --print-rpath can print for a binary whose directive is r.
Current(r) == IF r = AsCopied THEN ImageRpaths ELSE {r}

PyName(v) == "python" \o Short(v)

Runtime(v) == <<"bin", PyName(v)>>

Packages(v) == <<"lib", PyName(v)>>

DynLoad(v) == Packages(v) \o <<"lib-dynload">>

\* Path.unlink(missing_ok=True) in a directory b.
Unlink(b, name) == [x \in DOMAIN b \ {name} |-> b[x]]

\* Path.symlink_to in a directory b: FileExistsError when the name is there.
SymlinkTo(b, name, to) ==
    IF name \in DOMAIN b THEN [ok |-> FALSE, bin |-> b]
    ELSE [ok |-> TRUE, bin |-> (name :> [kind |-> "link", to |-> to]) @@ b]

\* The entry of directory b that opening name reaches, the links of b
\* followed: a regular file, a name that is not there (where a dangling link
\* ends), or "" when more than hops links lie on the way, as when they go
\* round.
\* The most links the kernel follows when it opens a name (ELOOP beyond).
MAXSYMLINKS == 40

RECURSIVE FollowLinks(_, _, _)
FollowLinks(b, name, hops) ==
    IF name \notin DOMAIN b THEN name
    ELSE IF b[name].kind = "file" THEN name
    ELSE IF hops = 0 THEN ""
    ELSE FollowLinks(b, b[name].to, hops - 1)

\* shutil.copy onto name: the source's content in a regular file, which is
\* name itself or, name being a link, the entry the link leads to (made when
\* it is not there); OSError (ELOOP) when the links go round or more than
\* MAXSYMLINKS of them lie on the way.
CopyTo(b, name, src) ==
    LET at == FollowLinks(b, name, MAXSYMLINKS)
    IN  IF at = "" THEN [ok |-> FALSE, bin |-> b, at |-> at]
        ELSE [ok |-> TRUE, at |-> at,
              bin |-> (at :> [kind |-> "file", src |-> src]) @@ b]

\* Lines 165-172: bin/ after the interpreter is copied and both links are
\* unlinked and created again, or as the first failing call left it; at is
\* the entry the copy went to, lines the number of calls that went through.
CloneBin(b, v, python_prefix) ==
    LET major == "python" \o ToString(v.major)
        b1 == CopyTo(b, PyName(v), python_prefix \o Runtime(v))
        b2 == SymlinkTo(Unlink(b1.bin, major), major, PyName(v))
        b3 == SymlinkTo(Unlink(b2.bin, "python"), "python", major)
    IN  IF ~b1.ok
        THEN [ok |-> FALSE, err |-> "OSError", bin |-> b, at |-> "", lines |-> 0]
        ELSE IF ~b2.ok
        THEN [ok |-> FALSE, err |-> "FileExistsError", bin |-> b2.bin,
              at |-> b1.at, lines |-> 1]
        ELSE [ok |-> b3.ok, err |-> "FileExistsError", bin |-> b3.bin,
              at |-> b1.at, lines |-> IF b3.ok THEN 3 ELSE 2]

\* Every ordering a directory listing may give of the entries S.
Orderings(S) == {s \in [1..Cardinality(S) -> S] : Range(s) = S}

\* Lines 210 and 215 writing the lib directory itself after $ORIGIN.
OriginToAbsolute(libdir, dir, cwd) == <<"$ORIGIN">> \o AbsPath(libdir, cwd)

\* The directive extract gives a binary in directory dir of the destination.
OriginTo(libdir, dir, cwd) == <<"$ORIGIN">> \o RelPath(libdir, dir, cwd)

\* Line 20 of the command line: the destination is there already.
DestinationExists(d) == d.exists

----------------------------------------------------------------------------
(* The run: main, Extractor(...), extract(destination) *)

Raise(e, arg) ==
    /\ pc' = "failed"
    /\ err' = e
    /\ obs' = [obs EXCEPT !.arg = arg]

\* extractor_cli.main up to the construction: refuses an existing destination.
MainCli ==
    /\ pc = "start"
    /\ IF DestinationExists(dst)
       THEN /\ pc' = "failed"
            /\ err' = "FileExistsError"
            /\ obs' = [obs EXCEPT !.entry = "cli"]
       ELSE /\ pc' = "new"
            /\ err' = err
            /\ obs' = [obs EXCEPT !.entry = "cli"]
    /\ UNCHANGED <<img, dest, ext, dst, rpath, ldd, libs, loc, plog, found, run1, dlvars>>

\* A caller that constructs the Extractor and calls extract itself.
ApiCall ==
    /\ pc = "start"
    /\ pc' = "new"
    /\ obs' = [obs EXCEPT !.entry = "api"]
    /\ UNCHANGED <<img, dest, err, ext, dst, rpath, ldd, libs, loc, plog, found, run1, dlvars>>

\* Extractor(arch, prefix, tag): __post_init__.
Construct ==
    /\ pc = "new"
    /\ \E ssl \in Orderings(img.ssl) :
         LET r == PostInit(img, ssl)
         IN  IF r.ok
             THEN /\ ext' = r
                  /\ pc' = "built"
                  /\ UNCHANGED <<err, obs>>
             ELSE /\ ext' = ext
                  /\ Raise(r.err, "")
    /\ UNCHANGED <<img, dest, dst, rpath, ldd, libs, loc, plog, found, run1, dlvars>>

\* extract, lines 152-172: the include folder is located, bin/ is made, the
\* interpreter copied and the two links replaced.
Clone ==
    /\ pc = "built"
    /\ \E inc \in Orderings(img.include) :
         IF inc = <<>>
         THEN /\ Raise("NotImplementedError", "")
              /\ UNCHANGED <<dst, rpath, loc>>
         ELSE LET b == CloneBin(dst.bin, ext.version, ext.python_prefix)
                  major == "python" \o ToString(ext.version.major)
                  written == IF b.lines = 0 THEN {}
                             ELSE IF b.lines = 1 THEN {b.at, major}
                             ELSE {b.at, major, "python"}
              IN  /\ loc' = [loc EXCEPT !.include = <<"include", inc[1]>>]
                  /\ dst' = [dst EXCEPT !.exists = TRUE, !.bin = b.bin]
                  /\ rpath' = IF b.at \in DOMAIN b.bin /\ b.bin[b.at].kind = "file"
                              THEN (<<"bin", b.at>> :> AsCopied) @@ rpath
                              ELSE rpath
                  /\ pc' = IF b.ok THEN "trees" ELSE "failed"
                  /\ err' = IF b.ok THEN err ELSE b.err
                  /\ obs' = [obs EXCEPT !.writes =
                               {PathJoin(dest, <<"bin">>)}
                               \cup {PathJoin(dest, <<"bin", n>>) : n \in written}]
    /\ UNCHANGED <<img, dest, ext, ldd, libs, plog, found, run1, dlvars>>

\* extract, lines 174-181: the package tree and the include tree are copied;
\* the extension modules arrive in the destination's lib-dynload.
CopyTrees ==
    /\ pc = "trees"
    /\ dst' = [dst EXCEPT
                 !.trees = dst.trees \cup {Packages(ext.version), loc.include},
                 !.mods = dst.mods \cup img.modules]
    /\ rpath' = [m \in {DynLoad(ext.version) \o <<x>> : x \in img.modules}
                   |-> AsCopied] @@ rpath
    /\ obs' = [obs EXCEPT !.writes = obs.writes
                    \cup {PathJoin(dest, Packages(ext.version)),
                          PathJoin(dest, loc.include)}]
    /\ pc' = "map"
    /\ UNCHANGED <<img, dest, err, ext, ldd, libs, loc, plog, found, run1, dlvars>>

\* extract, line 184: ldd on the interpreter of the image.
LddPython ==
    /\ pc = "map"
    /\ ldd' = LddEnter(ext.python_prefix \o Runtime(ext.version))
    /\ obs' = [obs EXCEPT !.located = <<>>,
                          !.reads = <<ext.python_prefix \o Runtime(ext.version)>>]
    /\ loc' = [loc EXCEPT !.todo = img.modules]
    /\ pc' = "ldd"
    /\ UNCHANGED <<img, dest, err, ext, dst, rpath, libs, plog, found, run1, dlvars>>

\* extract, lines 186-187: ldd on the next module the glob of the image's
\* lib-dynload lists.
LddModule ==
    /\ pc = "mods"
    /\ \E m \in loc.todo :
         /\ ldd' = LddEnter(ext.python_prefix \o DynLoad(ext.version) \o <<m>>)
         /\ obs' = [obs EXCEPT
                      !.located = <<>>,
                      !.reads = <<ext.python_prefix \o DynLoad(ext.version) \o <<m>>>>]
         /\ loc' = [loc EXCEPT !.todo = loc.todo \ {m}]
    /\ pc' = "ldd"
    /\ UNCHANGED <<img, dest, err, ext, dst, rpath, libs, plog, found, run1, dlvars>>

\* Where extract goes on once the loop over the closure is over.
AfterCopy(d) == IF d.mods # {} THEN "patch_mods" ELSE "patch_py"

\* Where extract goes on once ldd returned: the next module, else the loop
\* over the closure, else the patching of the modules.
AfterLdd(pending, closure, d) ==
    IF pending # {} THEN "mods"
    ELSE IF closure.order # <<>> THEN "copy"
    ELSE AfterCopy(d)

\* The loop of lines 186-188 without line 188: what the modules' calls
\* return is dropped.
MergedFirstOnly(closure, l, first) ==
    IF first THEN [order |-> l.order, path |-> l.path] ELSE closure

\* The closure of extract once ldd returned l: line 184 binds it, line 188
\* merges it.
Merged(closure, l, first) ==
    IF first THEN [order |-> l.order, path |-> l.path]
    ELSE DictUpdate(closure, l)

\* One step of the running ldd call (lines 224-237), and its return to
\* extract or its FileNotFoundError.
LddStep ==
    /\ pc = "ldd"
    /\ LET r == LddNext(ldd, img, ext)
           first == ldd.target = ext.python_prefix \o Runtime(ext.version)
       IN  CASE r.event = "raise" ->
                  /\ pc' = "failed"
                  /\ err' = "FileNotFoundError"
                  /\ obs' = [obs EXCEPT !.arg = r.name,
                                        !.located = Append(obs.located, r.name)]
                  /\ UNCHANGED <<ldd, libs, loc>>
             [] r.event = "recurse" ->
                  /\ ldd' = r.ldd
                  /\ obs' = [obs EXCEPT
                               !.located = Append(obs.located, r.name),
                               !.reads = Append(obs.reads, r.ldd.path[r.name])]
                  /\ UNCHANGED <<pc, err, libs, loc>>
             [] r.event = "skip" ->
                  /\ ldd' = r.ldd
                  /\ UNCHANGED <<pc, err, libs, loc, obs>>
             [] r.event = "return" /\ r.ldd.stack # <<>> ->
                  /\ ldd' = r.ldd
                  /\ UNCHANGED <<pc, err, libs, loc, obs>>
             [] r.event = "return" /\ r.ldd.stack = <<>> ->
                  /\ ldd' = r.ldd
                  /\ libs' = Merged(libs, ldd, first)
                  /\ loc' = [loc EXCEPT !.k = 0,
                               !.todo = IF loc.todo # {} THEN loc.todo
                                        ELSE dst.mods]
                  /\ pc' = AfterLdd(loc.todo, Merged(libs, ldd, first), dst)
                  /\ UNCHANGED <<err, obs>>
    /\ UNCHANGED <<img, dest, ext, dst, rpath, plog, found, run1, dlvars>>

\* stat.S_IWUSR, the owner-write bit (0o200).
S_IWUSR == 128

\* Permission bits a library of the image may carry: 0o555, 0o755.
Modes == {365, 493}

\* mode & stat.S_IWUSR
HasOwnerWrite(mode) == (mode \div S_IWUSR) % 2 = 1

\* Lines 198-201 without the chmod.
GrantNothing(mode) == mode

\* Lines 198-201: the mode the copy has afterwards, mode | S_IWUSR when the
\* bit was missing.
GrantWrite(mode) == IF ~HasOwnerWrite(mode) THEN mode + S_IWUSR ELSE mode

\* Lines 194-203 on one copied file as the operations they perform, each
\* with the mode the file has when it is performed: shutil.copy carries the
\* source's permission bits over, chmod runs when the owner-write bit is
\* missing, set_rpath queries and patches when the directive differs.
CopyOps(mode, current) ==
    <<[op |-> "copy", mode |-> mode]>>
        \o (IF GrantWrite(mode) # mode
            THEN <<[op |-> "chmod", mode |-> GrantWrite(mode)]>> ELSE <<>>)
        \o <<[op |-> "print-rpath", mode |-> GrantWrite(mode)]>>
        \o (IF SetRpath(current, <<"$ORIGIN">>).patched
            THEN <<[op |-> "set-rpath", mode |-> GrantWrite(mode)]>> ELSE <<>>)

\* extract, lines 192-203, for the next entry of the closure: copy, grant
\* owner-write when the copy lacks it, set the directive to $ORIGIN.
CopyDependency ==
    /\ pc = "copy"
    /\ LET name == libs.order[loc.k + 1]
       IN  \E mode \in Modes, current \in ImageRpaths :
             /\ dst' = [dst EXCEPT !.lib =
                          (name :> [src |-> libs.path[name],
                                    writable |-> HasOwnerWrite(GrantWrite(mode))])
                              @@ dst.lib]
             /\ rpath' = (<<"lib", name>> :> SetRpath(current, <<"$ORIGIN">>).rpath)
                             @@ rpath
             /\ obs' = [obs EXCEPT
                          !.calls = obs.calls \cup {<<"lib", name>>},
                          !.writes = obs.writes
                              \cup {PathJoin(PathJoin(dest, <<"lib">>), <<name>>)},
                          !.ops = CopyOps(mode, current)]
    /\ loc' = [loc EXCEPT !.k = loc.k + 1]
    /\ pc' = IF loc.k + 1 < Len(libs.order) THEN "copy" ELSE AfterCopy(dst)
    /\ UNCHANGED <<img, dest, err, ext, ldd, libs, plog, found, run1, dlvars>>

\* p is root or a path below it.
IsUnder(p, root) == Len(p) >= Len(root) /\ SubSeq(p, 1, Len(root)) = root

\* The loop of line 207 without line 206: path is still the directory of
\* line 185.
PatchDirStale(path, destination, v) == path

\* Line 206 binding path anew: the destination's lib-dynload.
PatchDir(path, destination, v) == PathJoin(destination, DynLoad(v))

\* extract, lines 206-210, for the next module the glob of line 207 lists:
\* the file it names is patched, in the destination or wherever path leads.
PatchModule ==
    /\ pc = "patch_mods"
    /\ \E m \in loc.todo :
         LET file == DynLoad(ext.version) \o <<m>>
             path == PatchDir(PathJoin(ext.python_prefix, DynLoad(ext.version)),
                              dest, ext.version)
             src  == PathJoin(path, <<m>>)
             want == OriginTo(PathJoin(dest, <<"lib">>), path, img.cwd)
         IN  /\ IF src = PathJoin(dest, file)
                THEN /\ \E current \in Current(rpath[file]) :
                          rpath' = [rpath EXCEPT
                                      ![file] = SetRpath(current, want).rpath]
                     /\ img' = img
                ELSE /\ rpath' = rpath
                     /\ img' = [img EXCEPT !.patched = img.patched \cup {src}]
             /\ obs' = [obs EXCEPT !.calls = obs.calls \cup {file},
                                   !.writes = obs.writes \cup {src}]
             /\ loc' = [loc EXCEPT !.todo = loc.todo \ {m}]
             /\ pc' = IF loc.todo \ {m} # {} THEN "patch_mods" ELSE "patch_py"
    /\ UNCHANGED <<dest, err, ext, dst, ldd, libs, plog, found, run1, dlvars>>

\* extract, lines 213-215: the interpreter of the destination.  patchelf
\* opens destination/bin/python<major>.<minor>, so it reads and rewrites the
\* entry that name leads to, and fails (CalledProcessError, check=True) when
\* the name leads nowhere.
PatchRuntime ==
    /\ pc = "patch_py"
    /\ LET file == Runtime(ext.version)
           at   == FollowLinks(dst.bin, PyName(ext.version), MAXSYMLINKS)
           src  == PathJoin(dest, file)
           want == OriginTo(PathJoin(dest, <<"lib">>),
                            SubSeq(src, 1, Len(src) - 1), img.cwd)
       IN  IF at \notin DOMAIN dst.bin
           THEN /\ pc' = "failed"
                /\ err' = "CalledProcessError"
                /\ UNCHANGED <<rpath, obs>>
           ELSE /\ \E current \in Current(rpath[<<"bin", at>>]) :
                     rpath' = [rpath EXCEPT
                                 ![<<"bin", at>>] = SetRpath(current, want).rpath]
                /\ obs' = [obs EXCEPT
                             !.calls = obs.calls \cup {file},
                             !.writes = obs.writes
                                           \cup {PathJoin(dest, <<"bin", at>>)}]
                /\ pc' = "done"
                /\ err' = err
    /\ UNCHANGED <<img, dest, ext, dst, ldd, libs, loc, plog, found, run1, dlvars>>

Extract ==
    \/ Construct \/ Clone \/ CopyTrees \/ LddPython \/ LddModule \/ LddStep
    \/ CopyDependency \/ PatchModule \/ PatchRuntime


----------------------------------------------------------------------------
(* Images, destinations and the initial states *)

\* Longest NEEDED list the interpreter or a library of the enumerated images
\* declares, and longest one an extension module declares.
MaxNeeded == 2

MaxModuleNeeded == 1

\* Most set_rpath calls of a run of the patcher alone.
MaxCalls == 3

Prefix == <<"images", "x86_64">>

COptInternal ==
    <<"/", "o", "p", "t", "/", "_", "i", "n", "t", "e", "r", "n", "a", "l", "/">>

CCPython == <<"c", "p", "y", "t", "h", "o", "n">>

\* /opt/_internal/cpython-3.11.4, what opt/python/cp311-cp311 points to.
Link311 == COptInternal \o CCPython \o <<"-", "3", ".", "1", "1", ".", "4">>

PyPrefix == Prefix \o <<"opt", "_internal", "cpython-3.11.4">>

PyExe == PyPrefix \o <<"bin", "python3.11">>

Modules == {"m1.so", "m2.so"}

ModFile(m) == PyPrefix \o <<"lib", "python3.11", "lib-dynload", m>>

Names == {"libA.so.1", "libB.so.2"}

SearchDirs ==
    {Prefix \o <<"lib64">>, Prefix \o <<"lib">>, Prefix \o <<"usr", "local", "lib">>,
     Prefix \o <<"opt", "_internal", "openssl-1.1", "lib">>,
     Prefix \o <<"opt", "_internal", "openssl-3.0", "lib">>}

\* NEEDED lists: names without repetition, at most MaxNeeded of them.
NeededLists ==
    UNION {{s \in [1..n -> Names] : \A i, j \in 1..n : i # j => s[i] # s[j]}
             : n \in 0..MaxNeeded}

\* The file name that tells a binary's NEEDED list in a graph g.
Binaries == {"python3.11"} \cup Modules \cup Names

\* Where the enumerated images keep a library: libA.so.1 in the
\* architecture's directory and again in usr/local/lib, the others in the
\* bundled OpenSSL's directory.
HomesOf(name) ==
    IF name = "libA.so.1"
    THEN {Prefix \o <<"lib64", name>>, Prefix \o <<"usr", "local", "lib", name>>}
    ELSE {Prefix \o <<"opt", "_internal", "openssl-3.0", "lib", name>>}

\* An exclude list file naming the set E: a comment, an empty line, a
\* comment after a TAB, a line of white space only, then one line per name,
\* padded with blanks, TABs, a vertical tab and the separators U+001C and
\* U+001F.
ExcludeFile(E) ==
    <<<<"#", " ", "libA.so.1", "\n">>, <<"\n">>,
      <<"\t", "#", " ", "libB.so.2", "\n">>, <<" ", "\t", "", "\n">>>>
        \o (IF "libA.so.1" \in E
             THEN <<<<" ", "\t", "", "libA.so.1", "\n">>>> ELSE <<>>)
        \o (IF "libB.so.2" \in E
             THEN <<<<"", "libB.so.2", " ", "\t", "">>>> ELSE <<>>)

BaseImage ==
    [prefix |-> Prefix, link |-> Link311, arch |-> "x86_64",
     ssl |-> {"openssl-3.0"}, include |-> {"python3.11"},
     files |-> {}, needed |-> <<>>, excludelist |-> <<>>,
     patchelf |-> TRUE, modules |-> Modules, cwd |-> <<"/", "home", "user">>,
     patched |-> {}]

\* The image whose binaries declare g, with the libraries P present and the
\* names E excluded.
ImageOf(g, P, E) ==
    LET files == UNION {HomesOf(n) : n \in P}
    IN  [BaseImage EXCEPT
           !.files = files,
           !.needed = [f \in {PyExe} \cup {ModFile(m) : m \in Modules} \cup files
                         |-> g[f[Len(f)]]],
           !.excludelist = ExcludeFile(E)]

NoDst == [exists |-> FALSE, bin |-> <<>>, trees |-> {}, mods |-> {}, lib |-> <<>>]

NoResult == [name |-> ""]

NoRun == [done |-> FALSE]

DestAbs == <<"/", "out", "python3.11">>

DestRel == <<"extracted", "python3.11">>

NoLoc == [include |-> <<>>, todo |-> {}, k |-> 0]

NoObs(tree) ==
    [entry |-> "", dst0 |-> tree, located |-> <<>>, reads |-> <<>>,
     calls |-> {}, arg |-> "", ops |-> <<>>, writes |-> {}]

\* No download under way.
NoManifest == [status |-> 0, layers |-> <<>>]

NoFetch == [layer |-> 1, chunk |-> 0, at |-> "request"]

NoLog == [extracted |-> <<>>, unlinked |-> <<>>]

NoDownload ==
    /\ manifest = NoManifest
    /\ fetch = NoFetch
    /\ tarfiles = <<>>
    /\ extractor = 0
    /\ procs = <<>>
    /\ workdir = {}
    /\ dlog = NoLog

\* The state at position p of a run on image im for destination d whose
\* tree is tree and whose binaries carry the directives r, nothing derived
\* or copied yet.
SetupExtract(im, d, tree, p, r) ==
    /\ img = im
    /\ dest = d
    /\ dst = tree
    /\ pc = p
    /\ err = ""
    /\ ext = NoExt
    /\ rpath = r
    /\ ldd = NoLdd
    /\ libs = NoLibs
    /\ loc = NoLoc
    /\ obs = NoObs(tree)
    /\ plog = <<>>
    /\ found = NoResult
    /\ run1 = NoRun

SetupWith(im, d, tree, p, r) == SetupExtract(im, d, tree, p, r) /\ NoDownload

Setup(im, d, tree, p) == SetupWith(im, d, tree, p, <<>>)

\* Dependency graphs over the binaries.
Graphs ==
    {g \in [Binaries -> NeededLists] :
        \A m \in Modules : Len(g[m]) <= MaxModuleNeeded}

\* Graphs in which every binary declares nothing or both libraries.
SmallGraphs == [Binaries -> {<<>>, <<"libA.so.1", "libB.so.2">>}]

Present(st) == {n \in Names : st[n] # "missing"}

Excluded(st) == {n \in Names : st[n] = "excluded"}

\* main on a fresh destination: every dependency graph, each library present,
\* missing from the image, or present and excluded.
Init ==
    \/ \E g \in Graphs, st \in [Names -> {"present", "missing", "excluded"}] :
          Setup(ImageOf(g, Present(st), Excluded(st)), DestAbs, NoDst, "start")
    \/ \E g \in SmallGraphs :
          Setup(ImageOf(g, Names, {}), DestRel, NoDst, "start")

Next == MainCli \/ Extract

Spec == Init /\ [][Next]_vars

----------------------------------------------------------------------------
(* main and direct callers, on destinations that may exist already *)

OldLink(to) == [kind |-> "link", to |-> to]

\* bin/ where python3.11 is the first of n links in a row, the last leading
\* to a regular file.
ChainName(k) == IF k = 0 THEN "python3.11" ELSE "l" \o ToString(k)

RECURSIVE LinkChain(_)
LinkChain(n) ==
    IF n = 0 THEN <<>>
    ELSE (ChainName(n - 1) :> OldLink(ChainName(n))) @@ LinkChain(n - 1)

ChainBin(n) == (ChainName(n) :> [kind |-> "file", src |-> <<"old">>]) @@ LinkChain(n)

\* Destination trees a caller may find: none, an empty directory, trees an
\* earlier extraction or another interpreter left, and trees where the
\* interpreter's name is a link: to a name that is not there, to a file that
\* has the major-version name, into a ring of links, and to a file at the
\* end of as many links as the kernel follows and of one more.
OldTrees ==
    {NoDst,
     [NoDst EXCEPT !.exists = TRUE],
     [NoDst EXCEPT !.exists = TRUE,
                   !.bin = ("python" :> OldLink("python2"))],
     [NoDst EXCEPT !.exists = TRUE,
                   !.bin = ("python3" :> OldLink("python3.9"))
                               @@ ("python" :> OldLink("python3"))],
     [NoDst EXCEPT !.exists = TRUE,
                   !.bin = ("python3.11" :> [kind |-> "file", src |-> <<"old">>])
                               @@ ("python3" :> OldLink("python3.11"))
                               @@ ("python" :> OldLink("python3"))],
     [NoDst EXCEPT !.exists = TRUE,
                   !.bin = ("python3.11" :> OldLink("python3.9"))],
     [NoDst EXCEPT !.exists = TRUE,
                   !.bin = ("python3.11" :> OldLink("python3"))
                               @@ ("python3" :> [kind |-> "file", src |-> <<"old">>])],
     [NoDst EXCEPT !.exists = TRUE,
                   !.bin = ("python3.11" :> OldLink("python"))
                               @@ ("python3" :> OldLink("python3.11"))
                               @@ ("python" :> OldLink("python3"))],
     [NoDst EXCEPT !.exists = TRUE, !.bin = ChainBin(MAXSYMLINKS)],
     [NoDst EXCEPT !.exists = TRUE, !.bin = ChainBin(MAXSYMLINKS + 1)]}

InitDest ==
    \E g \in SmallGraphs, P \in {Names, {"libA.so.1"}}, tree \in OldTrees :
        Setup(ImageOf(g, P, {}), DestAbs, tree, "start")

NextDest == MainCli \/ ApiCall \/ Extract

SpecDest == InitDest /\ [][NextDest]_vars

----------------------------------------------------------------------------
(* Two runs against the same image *)

\* A caller extracts again, from the same image into a fresh destination.
Restart ==
    /\ pc = "done"
    /\ ~run1.done
    /\ run1' = [done |-> TRUE, dst |-> dst, rpath |-> rpath]
    /\ dst' = obs.dst0
    /\ pc' = "start"
    /\ ext' = NoExt
    /\ rpath' = <<>>
    /\ ldd' = NoLdd
    /\ libs' = NoLibs
    /\ loc' = NoLoc
    /\ obs' = NoObs(obs.dst0)
    /\ UNCHANGED <<img, dest, err, plog, found, dlvars>>

Ssl11 == Prefix \o <<"opt", "_internal", "openssl-1.1", "lib">>

Ssl30 == Prefix \o <<"opt", "_internal", "openssl-3.0", "lib">>

\* Images with one or two OpenSSL installations and one or two include
\* folders; the libB.so.2 of openssl-3.0 needs libA.so.1, the one of
\* openssl-1.1 needs nothing.
InitTwice ==
    \E py \in NeededLists, m \in NeededLists,
       ssl \in SUBSET {"openssl-1.1", "openssl-3.0"},
       inc \in {{"python3.11"}, {"python3.11", "python3.11d"}},
       P \in {{}, {"libA.so.1"}} :
        LET files == {Prefix \o <<"lib64", n>> : n \in P}
                       \cup {Ssl11 \o <<"libB.so.2">>, Ssl30 \o <<"libB.so.2">>}
            needed == (PyExe :> py) @@ (ModFile("m1.so") :> m)
                        @@ (ModFile("m2.so") :> <<>>)
                        @@ (Ssl30 \o <<"libB.so.2">> :> <<"libA.so.1">>)
                        @@ [f \in files |-> <<>>]
        IN  Setup([BaseImage EXCEPT !.ssl = ssl, !.include = inc,
                                    !.files = files, !.needed = needed],
                  DestAbs, NoDst, "start")

NextTwice == ApiCall \/ Extract \/ Restart

SpecTwice == InitTwice /\ [][NextTwice]_vars

----------------------------------------------------------------------------
(* locate_library alone *)

LocateCall ==
    /\ pc = "built"
    /\ \E n \in Names :
         found' = [name |-> n,
                   path |-> LocateLibrary(ext.library_path, img.files, n)]
    /\ UNCHANGED <<img, dest, pc, err, ext, dst, rpath, ldd, libs, loc, obs,
                   plog, run1, dlvars>>

\* Every architecture, every set of OpenSSL installations, every set of
\* library files in the five directories a search path can name.
InitLocate ==
    \E arch \in Archs, ssl \in SUBSET {"openssl-1.1", "openssl-3.0"},
       files \in SUBSET {d \o <<n>> : d \in SearchDirs, n \in Names} :
        Setup([BaseImage EXCEPT !.arch = arch, !.ssl = ssl, !.files = files],
              DestAbs, NoDst, "new")

NextLocate == Construct \/ LocateCall

SpecLocate == InitLocate /\ [][NextLocate]_vars

----------------------------------------------------------------------------
(* set_rpath alone *)

PatchBins == {<<"bin", "python3.11">>, <<"lib", "libA.so.1">>}

Directives == ImageRpaths \cup {<<"$ORIGIN", "..", "..">>}

\* A caller sets a directive on a binary of the destination.
SetRpathCall ==
    /\ pc = "patching"
    /\ Len(plog) < MaxCalls
    /\ \E target \in DOMAIN rpath, directive \in Directives \ {<<>>} :
         LET r == SetRpath(rpath[target], directive)
         IN  /\ rpath' = [rpath EXCEPT ![target] = r.rpath]
             /\ plog' = Append(plog, [target |-> target, rpath |-> directive,
                                      before |-> rpath[target],
                                      patched |-> r.patched])
    /\ UNCHANGED <<img, dest, pc, err, ext, dst, ldd, libs, loc, obs, found, run1, dlvars>>

InitPatch ==
    \E r \in [PatchBins -> Directives] :
        SetupWith(BaseImage, DestAbs, NoDst, "patching", r)

NextPatch == SetRpathCall

SpecPatch == InitPatch /\ [][NextPatch]_vars


----------------------------------------------------------------------------
(* Extractor(...) alone, on every link target *)

CBin == <<"/", "b", "i", "n">>

\* Where the target lies: /opt/_internal/, the same with two and with three
\* slashes in front, a relative opt/_internal/, and the root.
LinkDirs ==
    {COptInternal, <<"/">> \o COptInternal, <<"/", "/">> \o COptInternal,
     Tail(COptInternal), <<"/">>}

LinkHeads == {CCPython \o <<"-">>, <<"p", "y", "p", "y", "-">>, CCPython, <<>>}

LinkMajors == {<<"3">>, <<"x">>}

LinkMinors == {<<"1", "1">>, <<"8">>, <<"1", "_", "1">>}

\* What follows major.minor: nothing, a numeric patch, a labelled one, one
\* with a leading zero, one with a further dot, an empty one, a signed one,
\* one with an underscore between digits, one after a blank, one after a
\* vertical tab, one before the separator U+001C, one of too many digits.
LongPatch == <<".">> \o [i \in 1..(MaxStrDigits + 1) |-> "1"]

LinkRests ==
    {<<>>, <<".", "4">>, <<".", "1", "0">>, <<".", "0", "r", "c", "1">>,
     <<".", "0", "4">>, <<".", "4", ".", "1">>, <<".">>, <<".", "-", "1">>,
     <<".", "1", "_", "0">>, <<".", " ", "4">>, <<".", "", "4">>,
     <<".", "4", "">>, LongPatch}

LinkTails == {<<>>, CBin, <<"/">>}

Links ==
    {d \o h \o ma \o <<".">> \o mi \o r \o t :
        d \in LinkDirs, h \in LinkHeads, ma \in LinkMajors, mi \in LinkMinors,
        r \in LinkRests, t \in LinkTails}

InitDescr ==
    \E l \in Links \cup {NoLink, NotLink}, p \in BOOLEAN :
        Setup([BaseImage EXCEPT !.link = l, !.patchelf = p], DestAbs, NoDst, "new")

NextDescr == Construct

SpecDescr == InitDescr /\ [][NextDescr]_vars


----------------------------------------------------------------------------
(* Downloader.download *)

MaxLayers == 3

MaxChunks == 2

SUCCESS == 200

\* Line 71: the archive's name in the temporary directory.
Filename(hash_) == hash_ \o ".tar.gz"

\* Line 88 taking every digest for the expected one.
HashIgnored(h, hash_) == TRUE

\* Line 88: the digest of what was written is the manifest's.
HashMatches(h, hash_) == h = hash_

\* Line 102 starting a process whatever extractor holds.
MayStartAlways(e) == TRUE

\* Line 102: extractor is None.
MayStart(e) == e = 0

\* Line 109: the archive handed over inside the loop, a Path in the
\* temporary directory.
LoopArchive(filename) == [type |-> "Path", at |-> <<"tmpdir", filename>>]

\* Line 124: the archive handed over after the loop, the bare name from the
\* deque, a str taken relative to the working directory.
FinalArchive(filename) == [type |-> "str", at |-> <<filename>>]

\* tar -xzf can open the archive: it lies in the temporary directory.
Readable(archive, wd) ==
    /\ Len(archive.at) = 2
    /\ archive.at[1] = "tmpdir"
    /\ archive.at[2] \in wd

\* TarExtractor.__post_init__: the shell running mkdir, tar and chmod is
\* started; tar has not opened the archive yet, nothing is unpacked and
\* nothing is on stderr.
Popen(archive) ==
    [filename |-> archive, state |-> "started",
     unpacked |-> FALSE, stderr |-> FALSE]

\* TarExtractor.extract once communicate() has returned, on a process p
\* with clean = True: the archive is unlinked, then TarError is raised when
\* the process wrote anything to stderr, whatever it unpacked.
TarExtract(p, wd) ==
    IF p.filename.type # "Path"
    THEN [err |-> "AttributeError", workdir |-> wd, unlinked |-> <<>>]
    ELSE IF ~Readable(p.filename, wd)
    THEN [err |-> "FileNotFoundError", workdir |-> wd, unlinked |-> <<>>]
    ELSE [err |-> IF p.stderr THEN "TarError" ELSE "",
          workdir |-> wd \ {p.filename.at[2]},
          unlinked |-> <<p.filename.at[2]>>]

\* An exception leaves download: the temporary directory goes with it.
Abort(e) ==
    /\ pc' = "failed"
    /\ err' = e

Layer == manifest.layers[fetch.layer]

\* Lines 49-60: the manifest is requested.
FetchManifest ==
    /\ pc = "download"
    /\ IF manifest.status = SUCCESS
       THEN pc' = "fetch" /\ err' = err
       ELSE Abort("DownloadError")
    /\ UNCHANGED <<exvars, dlvars>>

\* fetch_layers, lines 68-80: the next layer's blob is requested and its
\* archive opened for writing; or the manifest is exhausted and the
\* generator returns.
Request ==
    /\ pc = "fetch" /\ fetch.at = "request"
    /\ IF fetch.layer > Len(manifest.layers)
       THEN /\ pc' = "drain"
            /\ UNCHANGED <<err, fetch, workdir>>
       ELSE IF Layer.status # SUCCESS
       THEN /\ Abort("DownloadError")
            /\ workdir' = {}
            /\ fetch' = fetch
       ELSE /\ workdir' = workdir \cup {Filename(Layer.hash)}
            /\ fetch' = [fetch EXCEPT !.at = "chunks", !.chunk = 0]
            /\ UNCHANGED <<pc, err>>
    /\ UNCHANGED <<exvars, manifest, tarfiles, extractor, procs, dlog>>

\* fetch_layers, lines 81-85: a chunk is written and hashed, and the
\* generator yields.
Chunk ==
    /\ pc = "fetch" /\ fetch.at = "chunks"
    /\ fetch.chunk < Layer.chunks
    /\ fetch' = [fetch EXCEPT !.chunk = fetch.chunk + 1]
    /\ pc' = "body"
    /\ UNCHANGED <<exvars, err, manifest, tarfiles, extractor, procs, workdir, dlog>>

\* fetch_layers, lines 87-94: the digest is compared; the archive is queued
\* and the generator yields, or the error message is built from the
\* undefined name.
Verify ==
    /\ pc = "fetch" /\ fetch.at = "chunks"
    /\ fetch.chunk = Layer.chunks
    /\ IF HashMatches(Layer.sha, Layer.hash)
       THEN /\ tarfiles' = Append(tarfiles, Filename(Layer.hash))
            /\ fetch' = [layer |-> fetch.layer + 1, chunk |-> 0, at |-> "request"]
            /\ pc' = "body"
            /\ UNCHANGED <<err, workdir>>
       ELSE /\ Abort("NameError")
            /\ workdir' = {}
            /\ UNCHANGED <<tarfiles, fetch>>
    /\ UNCHANGED <<exvars, manifest, extractor, procs, dlog>>

\* One pass of the loop of line 101, lines 102-116: with no extractor the
\* next queued archive is handed to a new one; with one, done() polls it and
\* runs extract() when the process has ended.
Body ==
    /\ pc = "body"
    /\ IF MayStart(extractor)
       THEN IF tarfiles = <<>>
            THEN /\ pc' = "fetch"
                 /\ UNCHANGED <<err, tarfiles, extractor, procs, workdir, dlog>>
            ELSE /\ procs' = Append(procs, Popen(LoopArchive(Head(tarfiles))))
                 /\ extractor' = Len(procs) + 1
                 /\ tarfiles' = Tail(tarfiles)
                 /\ pc' = "fetch"
                 /\ UNCHANGED <<err, workdir, dlog>>
       ELSE IF procs[extractor].state # "exited"
            THEN /\ pc' = "fetch"
                 /\ UNCHANGED <<err, tarfiles, extractor, procs, workdir, dlog>>
            ELSE LET r == TarExtract(procs[extractor], workdir)
                 IN  /\ dlog' = [dlog EXCEPT !.unlinked = dlog.unlinked \o r.unlinked]
                     /\ IF r.err = ""
                        THEN /\ extractor' = 0
                             /\ workdir' = r.workdir
                             /\ pc' = "fetch"
                             /\ err' = err
                        ELSE /\ Abort(r.err)
                             /\ workdir' = {}
                             /\ extractor' = extractor
                     /\ UNCHANGED <<tarfiles, procs>>
    /\ UNCHANGED <<exvars, manifest, fetch>>

\* Lines 118-119, once the generator is exhausted: extract() on the
\* extractor that is left, which waits for its process.
Drain ==
    /\ pc = "drain"
    /\ IF extractor = 0
       THEN /\ pc' = "final"
            /\ UNCHANGED <<err, workdir, dlog>>
       ELSE /\ procs[extractor].state = "exited"
            /\ LET r == TarExtract(procs[extractor], workdir)
               IN  /\ dlog' = [dlog EXCEPT !.unlinked = dlog.unlinked \o r.unlinked]
                   /\ IF r.err = ""
                      THEN /\ workdir' = r.workdir
                           /\ pc' = "final"
                           /\ err' = err
                      ELSE /\ Abort(r.err)
                           /\ workdir' = {}
    /\ UNCHANGED <<exvars, manifest, fetch, tarfiles, extractor, procs>>

\* Lines 121-128: the loop over what is still queued hands the next archive
\* to a new extractor; with nothing queued download returns and the
\* temporary directory is removed.
Final ==
    /\ pc = "final"
    /\ IF tarfiles = <<>>
       THEN /\ pc' = "returned"
            /\ workdir' = {}
            /\ UNCHANGED <<tarfiles, extractor, procs>>
       ELSE /\ procs' = Append(procs, Popen(FinalArchive(Head(tarfiles))))
            /\ extractor' = Len(procs) + 1
            /\ tarfiles' = Tail(tarfiles)
            /\ pc' = "wait"
            /\ workdir' = workdir
    /\ UNCHANGED <<exvars, err, manifest, fetch, dlog>>

\* Line 129: extract() on the extractor of line 123, which waits for its
\* process.
FinalExtract ==
    /\ pc = "wait"
    /\ procs[extractor].state = "exited"
    /\ LET r == TarExtract(procs[extractor], workdir)
       IN  /\ dlog' = [dlog EXCEPT !.unlinked = dlog.unlinked \o r.unlinked]
           /\ IF r.err = ""
              THEN /\ workdir' = r.workdir
                   /\ pc' = "final"
                   /\ err' = err
              ELSE /\ Abort(r.err)
                   /\ workdir' = {}
    /\ UNCHANGED <<exvars, manifest, fetch, tarfiles, extractor, procs>>

\* The tar of a subprocess opens its archive, at any moment after the
\* start at which the archive is there; from then on it reads the open file,
\* whatever happens to the name or to the temporary directory.
TarOpen ==
    /\ \E j \in 1..Len(procs) :
         /\ procs[j].state = "started"
         /\ Readable(procs[j].filename, workdir)
         /\ procs' = [procs EXCEPT ![j].state = "opened"]
    /\ UNCHANGED <<exvars, pc, err, manifest, fetch, tarfiles, extractor,
                   workdir, dlog>>

\* A subprocess ends, at any moment, whether download is still running or
\* not: with the archive unpacked into the destination and nothing on
\* stderr; with the archive unpacked and a message on stderr (tar warns of a
\* member's absolute name and goes on, chmod fails after tar); or with
\* nothing unpacked and a message on stderr (mkdir fails, tar cannot open or
\* read the archive).  Only a tar that has opened its archive unpacks it.
TarExit ==
    /\ \E j \in 1..Len(procs), unpacked \in BOOLEAN, stderr \in BOOLEAN :
         /\ procs[j].state # "exited"
         /\ unpacked => procs[j].state = "opened"
         /\ ~unpacked => stderr
         /\ procs' = [procs EXCEPT ![j].state = "exited",
                                   ![j].unpacked = unpacked,
                                   ![j].stderr = stderr]
         /\ dlog' = [dlog EXCEPT !.extracted =
                       IF unpacked
                       THEN Append(dlog.extracted, procs[j].filename.at[2])
                       ELSE dlog.extracted]
    /\ UNCHANGED <<exvars, pc, err, manifest, fetch, tarfiles, extractor, workdir>>

LayerNames == <<"h1", "h2", "h3", "h4">>

\* The manifests: up to MaxLayers layers of up to MaxChunks chunks each, all
\* blobs served and intact up to at most one that is refused or corrupt
\* (the first such layer ends the download).
Manifests ==
    {[status |-> SUCCESS,
      layers |-> [i \in 1..n |->
                    [hash   |-> LayerNames[i],
                     chunks |-> c[i],
                     status |-> IF bad = <<i, "status">> THEN 404 ELSE SUCCESS,
                     sha    |-> IF bad = <<i, "sha">> THEN "xx" ELSE LayerNames[i]]]] :
        n \in 1..MaxLayers,
        c \in [1..MaxLayers -> 0..MaxChunks],
        bad \in {<<0, "">>} \cup ((1..MaxLayers) \X {"status", "sha"})}
    \cup {[status |-> 401, layers |-> <<>>]}

InitDownload ==
    /\ SetupExtract(BaseImage, DestAbs, NoDst, "download", <<>>)
    /\ manifest \in Manifests
    /\ fetch = NoFetch
    /\ tarfiles = <<>>
    /\ extractor = 0
    /\ procs = <<>>
    /\ workdir = {}
    /\ dlog = NoLog

NextDownload ==
    \/ FetchManifest \/ Request \/ Chunk \/ Verify \/ Body \/ Drain \/ Final
    \/ FinalExtract \/ TarOpen \/ TarExit

SpecDownload == InitDownload /\ [][NextDownload]_vars


----------------------------------------------------------------------------
(* What the claims speak of *)

\* The names the exclude list file names: its lines, blanks aside, that are
\* one name.
ExclSet ==
    {n \in Names :
        \E i \in 1..Len(img.excludelist) :
            SelectSeq(img.excludelist[i], LAMBDA t : t \notin Whitespace) = <<n>>}

\* Positions of the search path whose directory holds a file called n.
Holders(n) ==
    {i \in 1..Len(ext.library_path) : (ext.library_path[i] \o <<n>>) \in img.files}

\* The file the loader's search order gives name n, for Holders(n) # {}.
ResolvedFile(n) ==
    ext.library_path[CHOOSE i \in Holders(n) : \A j \in Holders(n) : i <= j] \o <<n>>

NeededBy(file) == Range(img.needed[file])

\* The names S together with all that chains of NEEDED entries reach from
\* them, a chain going on only through names of T the image holds.
RECURSIVE Reach(_, _)
Reach(S, T) ==
    LET more == UNION {NeededBy(ResolvedFile(n)) :
                         n \in {x \in S \cap T : Holders(x) # {}}}
    IN  IF more \subseteq S THEN S ELSE Reach(S \cup more, T)

EntryFiles == {PyExe} \cup {ModFile(m) : m \in img.modules}

\* Names reachable from the entry points E by any chain, and by chains whose
\* inner names are all outside the exclusion set.
ReachAny(E) == Reach(UNION {NeededBy(e) : e \in E}, Names)

ReachKept(E) == Reach(UNION {NeededBy(e) : e \in E}, Names \ ExclSet)

\* extract has built its closure and gone on to copying and patching.
Mapped == pc \in {"copy", "patch_mods", "patch_py", "done"}

NoRepeat(s) == \A i, j \in 1..Len(s) : i # j => s[i] # s[j]

----------------------------------------------------------------------------
(* Claims *)

\* C1 as stated: once every lookup succeeds, the closure extract builds holds
\* every name that any chain of NEEDED entries reaches from the interpreter
\* or a module and that is not excluded, and no excluded name.  It fails
\* for a name reached only through an excluded library.
C1_AnyChain ==
    (Mapped /\ \A n \in ReachAny(EntryFiles) \ ExclSet : Holders(n) # {})
        => /\ ReachAny(EntryFiles) \ ExclSet \subseteq DOMAIN libs.path
           /\ DOMAIN libs.path \cap ExclSet = {}

\* C1, amended: the closure extract builds holds every name that is not
\* excluded and is reached from the interpreter or a module by a chain of
\* NEEDED entries whose inner names are all not excluded, and it holds no
\* excluded name.
C1_ClosureComplete ==
    Mapped
        => /\ ReachKept(EntryFiles) \ ExclSet \subseteq DOMAIN libs.path
           /\ DOMAIN libs.path \cap ExclSet = {}

\* A finished run whose closure holds libB.so.2 although no entry point
\* names it: it was reached through libA.so.1.
C1_Witness ==
    /\ pc = "done"
    /\ "libB.so.2" \in DOMAIN libs.path
    /\ \A e \in EntryFiles : "libB.so.2" \notin NeededBy(e)

\* C2: ldd terminates on every graph, cycles included: in one call no name
\* is located twice, no file is read twice, every name located is inserted
\* once, and before its file is recursed into; the reads of a call are at
\* most the libraries plus the target, and a running call can always step.
C2_CycleSafe ==
    /\ NoRepeat(obs.located)
    /\ NoRepeat(obs.reads)
    /\ NoRepeat(ldd.order)
    /\ Range(ldd.order) = DOMAIN ldd.path
    /\ pc # "failed" => obs.located = ldd.order
    /\ \A i \in 2..Len(ldd.stack) :
          \E n \in DOMAIN ldd.path : ldd.stack[i].file = ldd.path[n]
    /\ Len(obs.reads) <= Cardinality(Names) + 1
    /\ Len(ldd.stack) <= Cardinality(Names) + 1
    /\ pc = "ldd" => ldd.stack # <<>> /\ ENABLED LddStep

\* ldd on the interpreter has returned both libraries of a cycle: libA.so.1
\* needs libB.so.2, which needs libA.so.1.
C2_Witness ==
    /\ ldd.target = PyExe
    /\ ldd.stack = <<>>
    /\ DOMAIN ldd.path = Names
    /\ "libB.so.2" \in NeededBy(ldd.path["libA.so.1"])
    /\ "libA.so.1" \in NeededBy(ldd.path["libB.so.2"])

\* A directive that starts at the binary's own directory and names neither
\* the root nor a component of the image's prefix.
SelfRelative(r) ==
    /\ r # <<>> /\ r[1] = "$ORIGIN"
    /\ "/" \notin Range(r)
    /\ Range(r) \cap Range(img.prefix) = {}

\* C3: after extract returned, every dependency in lib/ has the directive
\* $ORIGIN, every module of lib-dynload has $ORIGIN/../.., the interpreter
\* has $ORIGIN/../lib, and no binary of the destination has a directive that
\* is absolute or names the image.
C3_SelfRelative ==
    pc = "done"
        => /\ \A n \in DOMAIN dst.lib : rpath[<<"lib", n>>] = <<"$ORIGIN">>
           /\ \A m \in dst.mods :
                 rpath[<<"lib", "python3.11", "lib-dynload", m>>]
                     = <<"$ORIGIN", "..", "..">>
           /\ rpath[<<"bin", "python3.11">>] = <<"$ORIGIN", "..", "lib">>
           /\ \A b \in DOMAIN rpath : SelfRelative(rpath[b])

\* A finished run into a relative destination, with both libraries copied.
C3_Witness ==
    /\ pc = "done"
    /\ dest = DestRel
    /\ DOMAIN dst.lib = Names
    /\ dst.mods = Modules


\* C4: set_rpath runs the patch exactly when the directive it queried
\* differs from the one asked for; so a call on a binary that has the
\* directive already patches nothing, and of two calls in succession on one
\* binary with one directive the second patches nothing.
C4_PatchOnlyOnChange ==
    /\ \A i \in 1..Len(plog) :
          /\ plog[i].patched <=> plog[i].before # plog[i].rpath
          /\ rpath[plog[i].target] = plog[i].rpath
                \/ \E j \in (i + 1)..Len(plog) : plog[j].target = plog[i].target
    /\ \A i, j \in 1..Len(plog) :
          (/\ i < j
           /\ plog[i].target = plog[j].target
           /\ plog[i].rpath = plog[j].rpath
           /\ \A k \in (i + 1)..(j - 1) : plog[k].target # plog[i].target)
              => ~plog[j].patched

\* Two calls in succession with one directive on one binary, the first of
\* which patched.
C4_Witness ==
    /\ Len(plog) >= 2
    /\ plog[1].target = plog[2].target
    /\ plog[1].rpath = plog[2].rpath
    /\ plog[1].patched

\* extract has been entered: the run is past the construction.
Entered == pc \notin {"start", "new", "built"}

\* C5: when the destination exists as extract is called, the call fails and
\* leaves the destination as it was: no directory made, no interpreter
\* copied, no link removed or created.
C5_ExtractRefuses ==
    (obs.dst0.exists /\ Entered) => (pc = "failed" /\ dst = obs.dst0)

\* C6: an excluded name is never handed to locate_library, is never a key of
\* a dictionary of ldd or of the closure, and is never copied into lib/, also
\* when the search path holds a file of that name; what is copied into lib/
\* is a key of the closure, and once the loop is over every key is copied.
C6_ExcludedNeverTaken ==
    /\ Range(obs.located) \cap ExclSet = {}
    /\ DOMAIN ldd.path \cap ExclSet = {}
    /\ DOMAIN libs.path \cap ExclSet = {}
    /\ DOMAIN dst.lib \cap ExclSet = {}
    /\ DOMAIN dst.lib \subseteq DOMAIN libs.path
    /\ pc \in {"patch_mods", "patch_py", "done"} => DOMAIN dst.lib = DOMAIN libs.path

\* A finished run that copied a library, on an image whose interpreter or
\* module needs an excluded library that the search path holds.
C6_Witness ==
    /\ pc = "done"
    /\ DOMAIN dst.lib # {}
    /\ \E n \in ExclSet :
          /\ Holders(n) # {}
          /\ \E e \in EntryFiles : n \in NeededBy(e)

\* The entry points whose ldd call has returned.
Returned ==
    {e \in EntryFiles :
        /\ e # ldd.target
        /\ e = PyExe \/ \A m \in loc.todo : e # ModFile(m)}

\* C7: when a name that is reached and not excluded cannot be located, ldd
\* raises FileNotFoundError for it and hands extract nothing of that call,
\* extract ends with that error, no dependency is copied and no directive is
\* set; and extract goes on to copying only when every name it reached was
\* located.
C7_NoSilentSkip ==
    /\ (pc = "failed" /\ err = "FileNotFoundError")
          => /\ obs.arg \in Names \ ExclSet
             /\ Holders(obs.arg) = {}
             /\ DOMAIN libs.path = ReachKept(Returned) \ ExclSet
             /\ DOMAIN dst.lib = {}
             /\ obs.calls = {}
             /\ \A b \in DOMAIN rpath : rpath[b] = AsCopied
    /\ Mapped => \A n \in ReachKept(EntryFiles) \ ExclSet : Holders(n) # {}

\* ldd has raised for a name after it had located another in that call:
\* the entries it had are handed to nobody.
C7_Witness ==
    /\ pc = "failed" /\ err = "FileNotFoundError"
    /\ ldd.order # <<>>
    /\ obs.arg \notin DOMAIN ldd.path
    /\ DOMAIN ldd.path \cap DOMAIN libs.path = {}

\* What the claim compares of a bundle: its files and their directives.
FileSet(d) ==
    [bin |-> DOMAIN d.bin, trees |-> d.trees, mods |-> d.mods, lib |-> DOMAIN d.lib]

\* C8: two runs against one image into fresh destinations give the same
\* files and the same directives, in whatever order the globs list their
\* matches.  It fails when openssl-* or include/* has two matches: the
\* first listed is taken.
C8_Deterministic ==
    (pc = "done" /\ run1.done)
        => /\ FileSet(dst) = FileSet(run1.dst)
           /\ rpath = run1.rpath

\* The search path the claim describes: the architecture's directory,
\* usr/local/lib, then the lib of an OpenSSL installation when there is one.
IsSearchPath(p) ==
    /\ Len(p) = IF img.ssl = {} THEN 2 ELSE 3
    /\ p[1] = img.prefix \o (IF img.arch = "i686" THEN <<"lib">> ELSE <<"lib64">>)
    /\ p[2] = img.prefix \o <<"usr", "local", "lib">>
    /\ img.ssl # {} => \E s \in img.ssl : p[3] = img.prefix \o <<"opt", "_internal", s, "lib">>

\* C9: locate_library returns the name under the first directory of the
\* search path that holds it, whatever later directories hold; it fails
\* exactly when no directory holds it; it changes nothing.
C9_FirstMatch ==
    found.name # ""
        => /\ IsSearchPath(ext.library_path)
           /\ Holders(found.name) = {} <=> found.path = NotFound
           /\ Holders(found.name) # {} => found.path = ResolvedFile(found.name)
           /\ pc = "built" /\ dst = NoDst /\ rpath = <<>> /\ libs = NoLibs

\* A lookup answered from the first directory although all three hold the
\* name.
C9_Witness ==
    /\ found.name # ""
    /\ Holders(found.name) = {1, 2, 3}
    /\ found.path = ext.library_path[1] \o <<found.name>>

LinkRc == COptInternal \o CCPython \o <<"-", "3", ".", "1", "1", ".", "0", "r", "c", "1">>

\* C10 as stated: with the link pointing to /opt/_internal/cpython-3.11.4/bin
\* the Extractor gets CPython, (3, 11, 4) and the prefix
\* /opt/_internal/cpython-3.11.4 in the image.  The last component of that
\* target is bin, and the construction raises ValueError.
C10_BinTarget ==
    (img.link = Link311 \o CBin /\ img.patchelf /\ pc # "new")
        => /\ pc = "built"
           /\ ext.impl = "CPYTHON"
           /\ ext.version = [major |-> 3, minor |-> 11, patch |-> [int |-> 4]]
           /\ ext.python_prefix = img.prefix \o <<"opt", "_internal", "cpython-3.11.4">>

\* What Python's int() gives for the minor texts of LinkMinors, and the
\* patch the texts of LinkRests stand for.
MinorOf(mi) == IF mi = <<"8">> THEN 8 ELSE 11

PatchOf(r) ==
    CASE r = <<".", "4">> -> [int |-> 4]
      [] r = <<".", "1", "0">> -> [int |-> 10]
      [] r = <<".", "0", "r", "c", "1">> -> [label |-> "0rc1"]
      [] r = <<".", "0", "4">> -> [int |-> 4]
      [] r = <<".", "4", ".", "1">> -> [label |-> "4.1"]
      [] r = <<".">> -> [label |-> ""]
      [] r = <<".", "-", "1">> -> [int |-> 0 - 1]
      [] r = <<".", "1", "_", "0">> -> [int |-> 10]
      [] r = <<".", " ", "4">> -> [int |-> 4]
      [] r = <<".", "", "4">> -> [int |-> 4]
      [] r = <<".", "4", "">> -> [label |-> "4"]
      [] r = LongPatch -> [label |-> Str(Tail(LongPatch))]

\* C10, amended: with the link pointing to /opt/_internal/cpython-3.11.4 the
\* Extractor gets CPython, (3, 11, 4) and that prefix in the image; a target
\* ending in cpython-3.11.0rc1 gives the patch label 0rc1; and whenever the
\* construction succeeds the target's last component is cpython-, major,
\* a dot, minor, a dot and the patch text, major and minor are the numbers
\* int() reads, and a patch text that int() does not take is kept as it is;
\* with the link pointing to /opt/_internal/cpython-3.11.4/bin the
\* construction raises ValueError.
C10_Descriptor ==
    /\ (img.link = Link311 \o CBin /\ pc # "new")
          => (pc = "failed" /\ err = "ValueError")
    /\ (img.link = Link311 /\ img.patchelf /\ pc # "new")
          => /\ pc = "built"
             /\ ext.impl = "CPYTHON"
             /\ ext.version = [major |-> 3, minor |-> 11, patch |-> [int |-> 4]]
             /\ ext.python_prefix
                    = img.prefix \o <<"opt", "_internal", "cpython-3.11.4">>
    /\ (img.link = LinkRc /\ img.patchelf /\ pc # "new")
          => /\ pc = "built"
             /\ ext.version = [major |-> 3, minor |-> 11, patch |-> [label |-> "0rc1"]]
    /\ pc = "built"
          => /\ ext.impl = "CPYTHON"
             /\ \E mi \in LinkMinors, r \in LinkRests \ {<<>>} :
                   /\ PathName(img.link) = CCPython \o <<"-", "3", ".">> \o mi \o r
                   /\ ext.version = [major |-> 3, minor |-> MinorOf(mi),
                                     patch |-> PatchOf(r)]
                   /\ "label" \in DOMAIN ext.version.patch
                         => ext.version.patch.label = Str(Tail(r))

\* The Extractor constructed on the link to /opt/_internal/cpython-3.11.4.
C10_Witness ==
    /\ img.link = Link311
    /\ pc = "built"
    /\ Long(ext.version) = "3.11.4"


\* Positions of the operation op in the log of the last copied dependency.
OpsAt(op) == {i \in 1..Len(obs.ops) : obs.ops[i].op = op}

\* C11: for every closure entry extract copies first, then grants
\* owner-write exactly when the copy lacks it, then queries and sets the
\* directive; the patch is never run on a file that lacks owner-write; and
\* every file copied into lib/ has owner-write, at the latest when extract
\* returns.
C11_WritableBeforePatch ==
    /\ obs.ops # <<>>
          => /\ OpsAt("copy") = {1}
             /\ OpsAt("chmod") \subseteq {2}
             /\ OpsAt("chmod") = {2} <=> ~HasOwnerWrite(obs.ops[1].mode)
             /\ \A i \in OpsAt("chmod") : HasOwnerWrite(obs.ops[i].mode)
             /\ \A i \in OpsAt("print-rpath") \cup OpsAt("set-rpath") :
                   /\ HasOwnerWrite(obs.ops[i].mode)
                   /\ \A j \in OpsAt("copy") \cup OpsAt("chmod") : j < i
             /\ \A i \in OpsAt("set-rpath") :
                   \A j \in OpsAt("print-rpath") : j < i
    /\ \A n \in DOMAIN dst.lib : dst.lib[n].writable

\* extract has returned and the last dependency, read-only in the image,
\* was made writable and then patched.
C11_Witness ==
    /\ pc = "done"
    /\ OpsAt("chmod") = {2}
    /\ OpsAt("set-rpath") = {4}
    /\ ~HasOwnerWrite(obs.ops[1].mode)


\* recurse(file) from its entry i on, run against the accumulating
\* dictionary d in place of a dictionary of its own: the dictionary it
\* leaves.
RECURSIVE Accumulate(_, _, _)
Accumulate(d, file, i) ==
    LET entries == ReadElf(img, file)
    IN  IF i > Len(entries) THEN d
        ELSE IF ~Follows(d, ext.excluded, entries[i])
        THEN Accumulate(d, file, i + 1)
        ELSE LET path == LocateLibrary(ext.library_path, img.files, entries[i])
             IN  Accumulate(Accumulate((entries[i] :> path) @@ d, path, 1),
                            file, i + 1)

\* All entry points, in the order es, resolved against one dictionary.
RECURSIVE AccumulateAll(_, _)
AccumulateAll(d, es) ==
    IF es = <<>> THEN d
    ELSE AccumulateAll(Accumulate(d, es[1], 1), Tail(es))

\* C12: the closure extract merges from one ldd call per entry point, each
\* on a dictionary of its own, is the dictionary that resolving all entry
\* points against one accumulating dictionary gives, keys and paths, in
\* whatever order the entry points are taken.
C12_MergeIsAccumulation ==
    Mapped => \A es \in Orderings(EntryFiles) :
                 libs.path = AccumulateAll(<<>>, es)

\* A closure merged from two calls that both reached libB.so.2, the
\* module's call alone having reached libA.so.1.
C12_Witness ==
    /\ pc = "done"
    /\ DOMAIN libs.path = {"libA.so.1", "libB.so.2"}
    /\ ReachKept({PyExe}) \ ExclSet = {"libB.so.2"}
    /\ \E m \in img.modules : "libB.so.2" \in ReachKept({ModFile(m)})


\* C13: the construction fails with NotImplementedError whenever the link
\* target is relative or names another implementation than cpython; every
\* link target that is rejected is rejected with that error; and the
\* destination is not touched.  It fails for targets whose last component
\* has no dash or no major.minor.patch: these raise ValueError.
C13_LayoutRejected ==
    (img.link \notin {NoLink, NotLink} /\ pc # "new")
        => /\ img.link[1] # "/" => (pc = "failed" /\ err = "NotImplementedError")
           /\ (/\ Len(PathName(img.link)) > 5
               /\ SubSeq(PathName(img.link), 1, 5) = <<"p", "y", "p", "y", "-">>)
                 => (pc = "failed" /\ err = "NotImplementedError")
           /\ (pc = "failed" /\ img.patchelf) => err = "NotImplementedError"
           /\ dst = obs.dst0


\* The entry of bin/ a name resolves to, links followed inside bin/.
RECURSIVE Resolve(_, _, _)
Resolve(b, name, hops) ==
    IF name \notin DOMAIN b \/ hops = 0 THEN ""
    ELSE IF b[name].kind = "link" THEN Resolve(b, b[name].to, hops - 1)
    ELSE name

\* extract is past its step 2.
Cloned ==
    /\ ext.ok /\ loc.include # <<>>
    /\ ~(pc = "failed" /\ err \in {"OSError", "FileExistsError"})

\* C14: once step 2 of extract is over, bin/python<major> is a link to
\* python<major>.<minor> and bin/python a link to python<major>, both
\* resolving inside bin/ to the copy of the image's interpreter, whatever
\* links of these names the destination held.
C14_LinksReplaced ==
    Cloned =>
         LET major == "python" \o ToString(ext.version.major)
             exe   == Resolve(dst.bin, PyName(ext.version), MAXSYMLINKS + 1)
         IN  /\ {major, "python"} \subseteq DOMAIN dst.bin
             /\ dst.bin[major] = [kind |-> "link", to |-> PyName(ext.version)]
             /\ dst.bin["python"] = [kind |-> "link", to |-> major]
             /\ exe # ""
             /\ dst.bin[exe] = [kind |-> "file",
                                src |-> ext.python_prefix \o Runtime(ext.version)]
             /\ Resolve(dst.bin, major, MAXSYMLINKS + 1) = exe
             /\ Resolve(dst.bin, "python", MAXSYMLINKS + 1) = exe


\* C15: extract leaves the image as it is: whatever it creates, copies,
\* makes writable or patches lies below the destination and not below the
\* image's prefix, no step changes the image, and the fields derived at the
\* construction keep their values while extract runs.
C15_ImageUntouched ==
    /\ [](/\ \A w \in obs.writes :
               /\ IsUnder(AbsPath(w, img.cwd), AbsPath(dest, img.cwd))
               /\ ~IsUnder(AbsPath(w, img.cwd), AbsPath(img.prefix, img.cwd))
          /\ img.patched = {})
    /\ [][img' = img /\ (ext.ok => ext' = ext)]_vars

\* extract has returned after copying a dependency and patching a module
\* and the interpreter.
C15_Witness ==
    /\ pc = "done"
    /\ \E n \in DOMAIN dst.lib : PathJoin(dest, <<"lib", n>>) \in obs.writes
    /\ \E m \in dst.mods :
          PathJoin(dest, DynLoad(ext.version) \o <<m>>) \in obs.writes
    /\ PathJoin(dest, Runtime(ext.version)) \in obs.writes


\* The layers of the manifest whose blob has another digest than the
\* manifest states.
Corrupt == {i \in 1..Len(manifest.layers) :
              manifest.layers[i].sha # manifest.layers[i].hash}

\* The name of the archive a process was given.
ArchiveOf(p) == p.filename.at[Len(p.filename.at)]

\* C16: the archive of a layer whose digest differs from the manifest's is
\* never queued, is never handed to a tar process and is never unpacked,
\* and download does not return normally: it ends with the error raised at
\* the comparison.
C16_HashGate ==
    /\ \A i \in Corrupt :
          LET f == Filename(manifest.layers[i].hash)
          IN  /\ f \notin Range(tarfiles)
              /\ \A j \in 1..Len(procs) : ArchiveOf(procs[j]) # f
              /\ f \notin Range(dlog.extracted)
              /\ pc # "returned"
              /\ fetch.layer <= i
    /\ err = "NameError" => (pc = "failed" /\ fetch.layer \in Corrupt)

\* download has failed at the comparison of the second layer's digest
\* after the first layer was handed to tar.
C16_Witness ==
    /\ pc = "failed" /\ err = "NameError"
    /\ fetch.layer = 2
    /\ Len(procs) = 1

Running == {j \in 1..Len(procs) : procs[j].state # "exited"}

\* C17: archives are handed to tar processes in the manifest's order, and
\* a process is started only once every earlier one has ended and extract()
\* has been run on it; so at most one tar process runs at a time.
C17_OneAtATime ==
    /\ Cardinality(Running) <= 1
    /\ \A j \in 1..Len(procs) :
          /\ j <= Len(manifest.layers)
          /\ ArchiveOf(procs[j]) = Filename(manifest.layers[j].hash)
          /\ j < Len(procs) =>
                /\ procs[j].state = "exited"
                /\ ArchiveOf(procs[j]) \in Range(dlog.unlinked)

\* A second tar process runs, the first having ended.
C17_Witness ==
    /\ Len(procs) >= 2
    /\ procs[2].state = "opened"
    /\ procs[1].state = "exited" /\ procs[1].unpacked

\* Every answer of the registry is good, every blob intact, and no tar
\* process that was given its archive in the temporary directory failed.
Benign ==
    /\ manifest.status = SUCCESS
    /\ Corrupt = {}
    /\ \A i \in 1..Len(manifest.layers) : manifest.layers[i].status = SUCCESS
    /\ \A j \in 1..Len(procs) :
          procs[j].stderr => procs[j].filename.type # "Path"

\* C18: when every layer downloads intact and tar succeeds, download
\* returns normally, with every layer of the manifest unpacked exactly once
\* and its archive unlinked exactly once, also when archives are still
\* queued as the generator ends.  It fails then: the loop of line 121
\* hands extract() a str, whose unlink raises AttributeError.
C18_AllExtracted ==
    (Benign /\ pc \in {"returned", "failed"})
        => /\ pc = "returned"
           /\ Len(dlog.extracted) = Len(manifest.layers)
           /\ Len(dlog.unlinked) = Len(manifest.layers)
           /\ \A i \in 1..Len(manifest.layers) :
                 /\ Filename(manifest.layers[i].hash) \in Range(dlog.extracted)
                 /\ Filename(manifest.layers[i].hash) \in Range(dlog.unlinked)

============================================================================
